---- MODULE Spec2Model ----
(***************************************************************************)
(* Model of mx_native.py: the Ninja build task of a multiarch native       *)
(* project.  One project is constructed, getBuildTask composes its build   *)
(* task(s), and the task tree is executed sequentially.  The files of each *)
(* architecture-scoped output directory (manifest, temporary manifest,     *)
(* deliverable) and every invocation of the ninja executor are state.      *)
(*                                                                         *)
(* Strings the code inspects (reasons, ninja output lines) are sequences   *)
(* of tokens; "x in s" and "s.startswith(x)" are token tests.              *)
(***************************************************************************)
EXTENDS Integers, Sequences, FiniteSets, TLC

VARIABLES
    declared,       \* the 'multiarch' attribute: [present, list of declared strings]
    optMultiarch,   \* mx.get_opts().multiarch
    native,         \* args.native (AbstractNativeBuildTask.buildForbidden)
    genContent,     \* the manifest content generate_manifest writes for this snapshot
    phase,          \* "new", "constructed", "running", "finished"
    multiarch,      \* MultiarchProject.multiarch after __init__
    multi,          \* getBuildTask returned a MultiarchBuildTask
    subtasks,       \* target architectures of the build task(s), in execution order
    cur,            \* index of the subtask being executed
    pc,             \* position of the current subtask inside execute()/build()
    reason,         \* NinjaBuildTask._reason, per architecture
    built,          \* BuildTask.built, per architecture
    manifest,       \* content of <out_dir>/<arch>/build.ninja, per architecture
    tmp,            \* content of the SafeFileCreation temporary file, per architecture
    out_ts,         \* modification time of the deliverable, 0 when it does not exist
    clock,          \* current time
    aggBuilt,       \* MultiarchBuildTask.built
    aggNewest,      \* last value returned by MultiarchBuildTask.newestOutput()
    aborted,        \* mx.abort / an exception unwound the whole build
    abortMsg,       \* what the abort carries
    log,            \* history: executor invocations and manifest file operations
    nb,             \* history: trace of the last needsBuild call, per architecture
    pre,            \* history: manifest and reason at the entry of build(), per architecture
    registry,       \* _Toolchain._registry
    snap,           \* the project snapshot: files in discovery order, dependencies, kind
    queries,        \* per architecture: the needsBuild queries repeated after NotNeeded
    gen,            \* what a run of generate_manifest on the snapshot produced
    gen2,           \* what a second run on the same snapshot produced
    gphase,         \* the position of the generation and staleness scenarios
    touched,        \* the source file touched after the build
    decision,       \* what needsBuild returned after the touch
    archivable      \* the last call of getArchivableResults and what it yielded

\* what no step of the build changes: the configuration, the project snapshot
\* and the result of the archivable-results query
genVars  == <<gen, gen2, gphase, touched, decision>>
cfgVars  == <<declared, optMultiarch, native, genContent, snap, archivable,
             queries, genVars>>
projVars == <<multiarch, multi, subtasks>>
fileVars == <<manifest, tmp, out_ts, clock>>
taskVars == <<reason, built>>
aggVars  == <<aggBuilt, aggNewest>>
histVars == <<nb, pre>>
vars == <<cfgVars, projVars, fileVars, taskVars, aggVars, histVars,
          phase, cur, pc, aborted, abortMsg, log, registry>>

----------------------------------------------------------------------------
(* Bounds *)

MaxDeclared == 2        \* longest declared 'multiarch' list
MaxInitTs   == 1        \* newest modification time of a deliverable left by an earlier run
MaxQueries  == 2        \* how often a NotNeeded decision is queried again
MaxFiles    == 3        \* most files of a project snapshot
MaxDeps     == 2        \* most build dependencies of a project snapshot

----------------------------------------------------------------------------
(* Values *)

Host  == "amd64"                      \* mx.get_arch()
Archs == {"amd64", "aarch64"}
DeclaredTokens == Archs \cup {"<arch>"}

Absent   == "absent"                  \* no file at the path
Empty    == "empty"                   \* a file just created (mkstemp / open(.., 'w'))
Partial  == "partial"                 \* a manifest some of whose statements are written
Contents == {"M1", "M2"}              \* complete manifests
Unset    == "unset"

None == <<"<None>">>                  \* Python's None where a str is expected
default_manifest  == <<"build.ninja">>
NoManifestReason  == <<"no build manifest">>
NewerInputReason  == <<"newer input">>
NoWorkLine        == <<"ninja:", "no work to do.">>
ExplainManifest   == <<"ninja explain:", "build.ninja", "is dirty">>
ExplainPhony      == <<"ninja explain:", "output", "phony", "does not exist">>
ExplainObject     == <<"ninja explain:", "foo.o", "older than", "foo.c">>
WarningLine       == <<"ninja:", "warning">>

Contains(tok, s)   == \E i \in DOMAIN s : s[i] = tok
StartsWith(s, tok) == Len(s) > 0 /\ s[1] = tok

RECURSIVE SelectLines(_, _)
SelectLines(lines, tok) ==
    IF lines = <<>> THEN <<>>
    ELSE IF StartsWith(Head(lines), tok)
         THEN <<Head(lines)>> \o SelectLines(Tail(lines), tok)
         ELSE SelectLines(Tail(lines), tok)

SeqsUpTo(S, n) == UNION {[1..k -> S] : k \in 0..n}
Range(s) == {s[i] : i \in DOMAIN s}
Orderings(S) == {s \in [1..Cardinality(S) -> S] : Range(s) = S}
Last(s) == s[Len(s)]

\* Files of a project, relative to the project directory
AllFiles == {"include/api.h", "src/priv.h", "src/a.c", "src/d.c", "src/b.cc", "src/c.S",
             "src/x.swp", "src/y.rs"}
\* mx.dirname, os.path.splitext(f)[1], mx.basename
Dir(f)  == IF f = "include/api.h" THEN "include" ELSE "src"
Ext(f)  == CASE f \in {"include/api.h", "src/priv.h"} -> ".h"
             [] f \in {"src/a.c", "src/d.c"} -> ".c"
             [] f = "src/b.cc" -> ".cc"
             [] f = "src/c.S" -> ".S"
             [] f = "src/x.swp" -> ".swp"
             [] OTHER -> ".rs"
\* the object file name NinjaManifestGenerator._output derives: splitext + '.o'
ObjName(f) == CASE f = "include/api.h" -> "api.o"
             [] f = "src/priv.h" -> "priv.o"
             [] f = "src/a.c" -> "a.o"
             [] f = "src/d.c" -> "d.o"
             [] f = "src/b.cc" -> "b.o"
             [] f = "src/c.S" -> "c.o"
             [] f = "src/x.swp" -> "x.o"
             [] OTHER -> "y.o"
AsmName(f) == CASE f = "src/c.S" -> "c.asm" [] OTHER -> "other.asm"
Name(f) == CASE f = "include/api.h" -> "api.h"
             [] f = "src/priv.h" -> "priv.h"
             [] f = "src/a.c" -> "a.c"
             [] f = "src/d.c" -> "d.c"
             [] f = "src/b.cc" -> "b.cc"
             [] f = "src/c.S" -> "c.S"
             [] f = "src/x.swp" -> "x.swp"
             [] OTHER -> "y.rs"
\* self.out_dir, self.dir, self._target as paths (sequences of components)
out_dir == <<"out">>
dir     == <<"proj">>
_target == <<"libfoo.a">>

----------------------------------------------------------------------------
(* _Toolchain *)

is_native(target_arch)    == target_arch = Host
is_available(target_arch) == is_native(target_arch)

\* cls._registry[target_arch] = _Toolchain(target_arch)
ForReplacing(reg, target_arch) ==
    [a \in DOMAIN reg \cup {target_arch} |->
        IF a = target_arch
        THEN [target_arch |-> target_arch, id |-> Cardinality(DOMAIN reg)]
        ELSE reg[a]]

\* cls._registry.setdefault(target_arch, _Toolchain(target_arch))
\* A descriptor's id stands for the identity of the object: the number of
\* descriptors the registry held when it was created.
for_(reg, target_arch) ==
    IF target_arch \in DOMAIN reg THEN reg
    ELSE [a \in DOMAIN reg \cup {target_arch} |->
            IF a = target_arch
            THEN [target_arch |-> target_arch, id |-> Cardinality(DOMAIN reg)]
            ELSE reg[a]]

\* _Toolchain.target: f'{mx.get_os()}-{self.target_arch}'
target(target_arch) == IF target_arch = "amd64" THEN "linux-amd64" ELSE "linux-aarch64"

----------------------------------------------------------------------------
(* Ninja *)

NoMsg == [kind |-> "none", rc |-> 0, out |-> "", err |-> ""]
Msg(kind) == [kind |-> kind, rc |-> 0, out |-> "", err |-> ""]

RunOk == [abort |-> FALSE, msg |-> NoMsg]

\* Ninja._run: rc = mx.run(..., nonZeroIsFatal=False, ...); if rc: mx.abort(rc if verbose else (out, err))
RunIgnoringExitCode(rc, verbose, out, err) == RunOk

RunSwappedPayload(rc, verbose, out, err) ==
    IF rc # 0
    THEN [abort |-> TRUE,
          msg |-> IF verbose
                  THEN [kind |-> "output", rc |-> 0, out |-> out, err |-> err]
                  ELSE [kind |-> "exit_code", rc |-> rc, out |-> "", err |-> ""]]
    ELSE RunOk

_run(rc, verbose, out, err) ==
    IF rc # 0
    THEN [abort |-> TRUE,
          msg |-> IF verbose
                  THEN [kind |-> "exit_code", rc |-> rc, out |-> "", err |-> ""]
                  ELSE [kind |-> "output", rc |-> 0, out |-> out, err |-> err]]
    ELSE RunOk

\* verbose = mx.get_opts().verbose or mx_verbose_env
Verbose(optsVerbose, envVerbose) == optsVerbose \/ envVerbose

NoValue == <<FALSE, None>>

\* the arguments Ninja.build and Ninja.needs_build hand to _run
build_args == <<>>

ExplainWithoutDryRun == <<"-d", "explain">>

needs_build_args == <<"-n", "-d", "explain">>

\* The executor brings the outputs up to date unless it is run with -n.
ExecutorBuilds(args) == ~Contains("-n", args)

\* Ninja.needs_build, given what the dry run exits with and prints.
needs_build(rc, verbose, outLines, detailLines) ==
    LET r == _run(rc, verbose, outLines, detailLines) IN
    IF r.abort THEN [kind |-> "abort", value |-> NoValue, msg |-> r.msg]
    ELSE IF detailLines # <<>>
    THEN LET explain == SelectLines(detailLines, "ninja explain:") IN
         IF explain = <<>>
         THEN [kind |-> "raise", value |-> NoValue, msg |-> Msg("IndexError")]
         ELSE [kind |-> "return", value |-> <<TRUE, explain[1]>>, msg |-> NoMsg]
    ELSE IF outLines # <<NoWorkLine>>
    THEN [kind |-> "raise", value |-> NoValue, msg |-> Msg("AssertionError")]
    ELSE [kind |-> "return", value |-> <<FALSE, outLines[1]>>, msg |-> NoMsg]

----------------------------------------------------------------------------
(* MultiarchProject *)

\* mx_subst.results_substitutions.substitute(arch)
substitute(arch) == IF arch = "<arch>" THEN Host ELSE arch

\* list(set(substitute(arch) for arch in multiarch)): the order of the list is
\* whatever the set iterates in.
MultiarchKeepingDuplicates(list) == {[i \in DOMAIN list |-> substitute(list[i])]}

MultiarchOf(list) == Orderings({substitute(list[i]) : i \in DOMAIN list})

NeverMissingHost(m) == FALSE

\* if mx.get_arch() not in self.multiarch: mx.abort(...)
MissingHost(m) == Host \notin Range(m)

\* self.multiarch and mx.get_opts().multiarch
_use_multiarch(m, opt) == m # <<>> /\ opt

\* getBuildTask: the architectures a build task is created for
SubtasksIgnoringOption(m, opt) == IF m # <<>> THEN m ELSE <<Host>>

BuildTaskArchs(m, opt) == IF _use_multiarch(m, opt) THEN m ELSE <<Host>>

\* MultiarchBuildTask.execute: self.built = any(t.built for t in self.subtasks)
AnyBuilt(b, sub) == \E i \in DOMAIN sub : b[sub[i]]

\* mx.TimeStampFile.newest(files): the newest of the files that exist (0: none)
RECURSIVE NewestFrom(_, _)
NewestFrom(ts, files) ==
    IF files = <<>> THEN ts
    ELSE LET f == Head(files) IN
         IF f # 0 /\ (ts = 0 \/ ts < f)
         THEN NewestFrom(f, Tail(files))
         ELSE NewestFrom(ts, Tail(files))

newest(files) == NewestFrom(0, files)

\* NinjaBuildTask.newestOutput
newestOutput(ots, target_arch) == newest(<<ots[target_arch]>>)

\* MultiarchBuildTask.newestOutput
FirstOutput(ots, sub) == IF sub = <<>> THEN 0 ELSE newestOutput(ots, sub[1])

MultiarchNewestOutput(ots, sub) ==
    newest([i \in DOMAIN sub |-> newestOutput(ots, sub[i])])

\* os.listdir(mx.join(self.dir, self.include))
listdir_include(files) ==
    LET hs == SelectSeq(files, LAMBDA f : Dir(f) = "include")
    IN [i \in DOMAIN hs |-> Name(hs[i])]

\* DefaultNativeProject._archivable_results
result(base_dir, file_path, use_relpath) ==
    [src |-> base_dir \o file_path,
     arc |-> IF use_relpath THEN file_path ELSE <<Last(file_path)>>]

_archivable_results(target_arch, use_relpath, single, files) ==
    <<result(out_dir \o <<target_arch>>, _target, use_relpath)>>
    \o (IF ~single
        THEN LET hs == listdir_include(files)
             IN [i \in DOMAIN hs |-> result(dir, <<"include", hs[i]>>, use_relpath)]
        ELSE <<>>)

\* getArchivableResults: if toolchain.is_native or not single
YieldsAvailableOnly(target_arch, single) == is_available(target_arch)

Yields(target_arch, single) == is_native(target_arch) \/ ~single

\* MultiarchProject.getArchivableResults; arch is the architecture a pair was
\* yielded for (not part of the pair)
RECURSIVE ArchivableOf(_, _, _, _, _)
ArchivableOf(archs, m, use_relpath, single, files) ==
    IF archs = <<>> THEN <<>>
    ELSE LET target_arch == Head(archs)
             target_arch_path == IF m # <<>> THEN <<target(target_arch)>> ELSE <<>>
             rs == _archivable_results(target_arch, use_relpath, single, files)
         IN (IF Yields(target_arch, single)
             THEN [i \in DOMAIN rs |->
                     [arch |-> target_arch, src |-> rs[i].src,
                      arc |-> target_arch_path \o rs[i].arc]]
             ELSE <<>>)
            \o ArchivableOf(Tail(archs), m, use_relpath, single, files)

ArchivableArchs(m, opt) == IF _use_multiarch(m, opt) THEN m ELSE <<Host>>

getArchivableResults(m, opt, use_relpath, single, files) ==
    ArchivableOf(ArchivableArchs(m, opt), m, use_relpath, single, files)

\* the registry after _Toolchain.for_ was called for each of archs
RECURSIVE LookupAll(_, _)
LookupAll(reg, archs) ==
    IF archs = <<>> THEN reg ELSE LookupAll(for_(reg, Head(archs)), Tail(archs))

----------------------------------------------------------------------------
(* NinjaManifestGenerator and DefaultNativeProject.generate_manifest *)

\* Paths are sequences of components; an absolute path starts with "/".
\* mx.join(a, b): an absolute b replaces a
join(a, b) == IF b # <<>> /\ b[1] = "/" THEN b ELSE a \o b

\* NinjaManifestGenerator._resolve
_resolve(path) == join(<<"$project">>, path)

\* NinjaManifestGenerator._output (not on Windows)
_output(f) == <<Dir(f), ObjName(f)>>

Edge(out, rule, ins) == [out |-> out, rule |-> rule, ins |-> ins]

\* NinjaManifestGenerator.cc / cxx / asm: the build statements written; the
\* last one produces the object file
cc(f)  == <<Edge(_output(f), "cc", <<_resolve(<<Dir(f), Name(f)>>)>>)>>

cxx(f) == <<Edge(_output(f), "cxx", <<_resolve(<<Dir(f), Name(f)>>)>>)>>

AsmDetached(f, asm_requires_cpp) == <<Edge(_output(f), "asm", <<>>)>>

asm(f, asm_requires_cpp) ==
    IF asm_requires_cpp
    THEN <<Edge(<<Dir(f), AsmName(f)>>, "cpp", <<_resolve(<<Dir(f), Name(f)>>)>>),
           Edge(_output(f), "asm", <<<<Dir(f), AsmName(f)>>>>)>>
    ELSE <<Edge(_output(f), "asm", <<_resolve(<<Dir(f), Name(f)>>)>>)>>

\* self._source['files'].get(ext, []): the files of one extension, in
\* discovery order
FilesOf(files, ext) == SelectSeq(files, LAMBDA f : Ext(f) = ext)

\* generate_manifest: the extensions that make the generation abort
AnyExtension == {".h", ".c", ".cc", ".S", ".swp", ".rs"}

supported_extensions == {".h", ".c", ".cc", ".S", ".swp"}

unsupported_source_files(files) == {Ext(f) : f \in Range(files)} \ supported_extensions

KeepLastOccurrence(s) ==
    LET idx == SelectSeq([i \in DOMAIN s |-> i],
                         LAMBDA i : \A j \in DOMAIN s : j > i => s[j] # s[i])
    IN [k \in DOMAIN idx |-> s[idx[k]]]

\* collections.OrderedDict.fromkeys(s).keys(): duplicates dropped, the first
\* occurrence kept in place
RECURSIVE fromkeys(_)
fromkeys(s) ==
    IF s = <<>> THEN <<>>
    ELSE LET init == fromkeys(SubSeq(s, 1, Len(s) - 1))
         IN IF Contains(Last(s), init) THEN init ELSE Append(init, Last(s))

RECURSIVE Flatten(_)
Flatten(ss) == IF ss = <<>> THEN <<>> ELSE Head(ss) \o Flatten(Tail(ss))

\* getattr(d, 'include_dirs', []) and getattr(d, 'libs', []) for a dependency;
\* a dependency without the attribute has no such field
include_dirs_of(d) == IF "include_dirs" \in DOMAIN d THEN d.include_dirs ELSE <<>>

libs_of(d) == IF "libs" \in DOMAIN d THEN d.libs ELSE <<>>

\* the list handed to gen.include_dirs, before the duplicates are removed
IncludeCandidates(sn) ==
    [i \in DOMAIN FilesOf(sn.files, ".h") |-> <<Dir(FilesOf(sn.files, ".h")[i])>>]
    \o Flatten([i \in DOMAIN sn.deps |-> include_dirs_of(sn.deps[i])])

\* NinjaManifestGenerator.include_dirs: '-I' + self._resolve(d) for each
\* directory (no modelled path holds a space, so nothing is quoted)
include_dirs(dirs) == [i \in DOMAIN dirs |-> <<"-I">> \o _resolve(dirs[i])]

\* the compile statements, in the order they are written, and the object files
CompileEdges(sn) ==
    Flatten([i \in DOMAIN FilesOf(sn.files, ".c") |-> cc(FilesOf(sn.files, ".c")[i])])
    \o Flatten([i \in DOMAIN FilesOf(sn.files, ".cc") |-> cxx(FilesOf(sn.files, ".cc")[i])])
    \o Flatten([i \in DOMAIN FilesOf(sn.files, ".S") |->
                    asm(FilesOf(sn.files, ".S")[i], sn.asm_requires_cpp)])

object_files(sn) ==
    [i \in DOMAIN FilesOf(sn.files, ".c") |-> Last(cc(FilesOf(sn.files, ".c")[i])).out]
    \o [i \in DOMAIN FilesOf(sn.files, ".cc") |-> Last(cxx(FilesOf(sn.files, ".cc")[i])).out]
    \o [i \in DOMAIN FilesOf(sn.files, ".S") |->
            Last(asm(FilesOf(sn.files, ".S")[i], sn.asm_requires_cpp)).out]

dep_libs(sn) == Flatten([i \in DOMAIN sn.deps |-> libs_of(sn.deps[i])])

\* the statement for the deliverable
ArWithDepLibs(sn) == Edge(_target, "ar", object_files(sn) \o dep_libs(sn))

ar(sn) == Edge(_target, "ar", object_files(sn))

LinkRule(sn) == IF FilesOf(sn.files, ".cc") # <<>> THEN "linkxx" ELSE "link"

link(sn) == Edge(_target, LinkRule(sn), object_files(sn) \o dep_libs(sn))

TerminalEdge(sn) == IF sn.kind = "static_lib" THEN ar(sn) ELSE link(sn)

\* NinjaManifestGenerator._generate_mx_interface: the manifest depends on the
\* directories of the source tree (phony) and on suite.py
source_tree(files) == fromkeys([i \in DOMAIN files |-> Dir(files[i])])

ManifestDeps(sn) ==
    [i \in DOMAIN source_tree(sn.files) |-> _resolve(<<source_tree(sn.files)[i]>>)]
    \o <<<<"suite.py">>>>

\* os.path.relpath(path, start) of two paths below the same directory that
\* share no leading component
relpath(path, start) == [i \in DOMAIN start |-> ".."] \o path

\* a generator that writes the name of its output file into the header comment
GenerateNamingFile(sn, output_dir, filename) ==
    [kind |-> "manifest",
     path |-> output_dir \o <<filename>>,
     header |-> <<"Generated by mx.", filename>>,
     project |-> relpath(dir, output_dir),
     manifest_deps |-> ManifestDeps(sn),
     ldvars   |-> sn.kind # "static_lib",
     includes |-> include_dirs(fromkeys(IncludeCandidates(sn))),
     edges    |-> Append(CompileEdges(sn), TerminalEdge(sn))]

\* DefaultNativeProject.generate_manifest: the abort, or the file written
\* (path) and what is written into it (every other field)
generate_manifest(sn, output_dir, filename) ==
    IF unsupported_source_files(sn.files) # {}
    THEN [kind |-> "abort", msg |-> Msg("unsupported_sources")]
    ELSE [kind |-> "manifest",
          path |-> output_dir \o <<filename>>,
          header |-> <<"Generated by mx.", "Do not edit.">>,
          project |-> relpath(dir, output_dir),
          manifest_deps |-> ManifestDeps(sn),
          ldvars   |-> sn.kind # "static_lib",
          includes |-> include_dirs(fromkeys(IncludeCandidates(sn))),
          edges    |-> Append(CompileEdges(sn), TerminalEdge(sn))]

----------------------------------------------------------------------------
(* NinjaBuildTask *)

\* TargetArchBuildTask.__init__: self.out_dir = mx.join(self.subject.out_dir, self.target_arch)
SharedOutDir(target_arch) == out_dir

TaskOutDir(target_arch) == join(out_dir, <<target_arch>>)

\* NinjaBuildTask.__init__: self._manifest = mx.join(self.out_dir, Ninja.default_manifest)
_manifest(target_arch) == join(TaskOutDir(target_arch), default_manifest)

\* needsBuild: the checks it consults, its outcome and the reason it records.
\* generic is what the inherited needsBuild returns, dry what ninja.needs_build()
\* does if it is called.
NeedsBuildManifestFirst(generic, mexists, dry) ==
    IF ~mexists
    THEN [consulted |-> <<"exists">>,
          outcome |-> [kind |-> "return", value |-> <<TRUE, NoManifestReason>>, msg |-> NoMsg],
          reason |-> NoManifestReason]
    ELSE IF generic[1]
    THEN [consulted |-> <<"exists", "generic">>,
          outcome |-> [kind |-> "return", value |-> generic, msg |-> NoMsg],
          reason |-> generic[2]]
    ELSE [consulted |-> <<"exists", "generic", "dry_run">>,
          outcome |-> dry,
          reason |-> IF dry.kind = "return" THEN dry.value[2] ELSE generic[2]]

needsBuild(generic, mexists, dry) ==
    IF generic[1]
    THEN [consulted |-> <<"generic">>,
          outcome |-> [kind |-> "return", value |-> <<TRUE, generic[2]>>, msg |-> NoMsg],
          reason |-> generic[2]]
    ELSE IF ~mexists
    THEN [consulted |-> <<"generic", "exists">>,
          outcome |-> [kind |-> "return", value |-> <<TRUE, NoManifestReason>>, msg |-> NoMsg],
          reason |-> NoManifestReason]
    ELSE [consulted |-> <<"generic", "exists", "dry_run">>,
          outcome |-> dry,
          reason |-> IF dry.kind = "return" THEN dry.value[2] ELSE generic[2]]

\* build: the condition under which the manifest is regenerated
RegenIgnoringPhony(mexists, r) ==
    \/ ~mexists
    \/ r = None
    \/ Contains(default_manifest[1], r)

RegenAlways(mexists, r) == TRUE

RegenNeeded(mexists, r) ==
    \/ ~mexists
    \/ r = None
    \/ Contains(default_manifest[1], r)
    \/ Contains("phony", r)

\* build: generate_manifest is handed the directory and name of sfc.tmpPath
GenTargetInPlace == "manifest"

GenTarget == "tmp"

\* build: mx.exists(self._manifest) and not filecmp.cmp(self._manifest, sfc.tmpPath, shallow=False)
CleanNever(old, new) == FALSE

CleanNeeded(old, new) == old # Absent /\ old # new

----------------------------------------------------------------------------
(* Inputs *)

DeclaredChoices ==
    {[present |-> FALSE, list |-> <<>>]}
    \cup {[present |-> TRUE, list |-> l] : l \in SeqsUpTo(DeclaredTokens, MaxDeclared)}

\* what the inherited needsBuild (the generic input-freshness check) may return
GenericResults == {<<TRUE, NewerInputReason>>, <<TRUE, None>>, <<FALSE, None>>}

\* what a dry run may print on its output and on its explanation stream
OutLineChoices    == {<<NoWorkLine>>, <<>>, <<WarningLine, NoWorkLine>>}
DetailLineChoices == {<<>>, <<WarningLine>>, <<ExplainManifest>>, <<ExplainPhony>>,
                      <<ExplainObject>>, <<WarningLine, ExplainObject, ExplainManifest>>}
ExitCodes   == {0, 1}
FailOutputs == {"FAILED: foo.o", ""}      \* captured output of a failing process

\* verbose and out are recorded for a failing invocation only
Event(a, op, rc, verbose, out) ==
    [arch |-> a, op |-> op, rc |-> rc, verbose |-> rc # 0 /\ verbose, out |-> out]
ExecutorOps == {"dry_run", "clean", "compdb", "build"}

NoTrace == [called |-> FALSE, generic |-> NoValue, mexists |-> FALSE,
            dry |-> [kind |-> "none", value |-> NoValue, msg |-> NoMsg],
            consulted |-> <<>>, kind |-> "none", value |-> NoValue]
NoQuery == [called |-> FALSE, single |-> FALSE, use_relpath |-> FALSE, pairs |-> <<>>]
\* the snapshots of the project whose build is followed step by step: a public
\* header, a C source and either an editor swap file or a Rust source
BuildSnapshots ==
    {[files |-> <<"include/api.h", "src/a.c">> \o extra, deps |-> <<>>, kind |-> "static_lib",
      asm_requires_cpp |-> FALSE] :
        extra \in {<<"src/x.swp">>, <<"src/y.rs">>}}
NoPre   == [entered |-> FALSE, manifest |-> Unset, reason |-> None, regen |-> FALSE]

NoManifest == [kind |-> "none"]

\* nothing generated, touched or decided
GenIdle ==
    /\ gen = NoManifest /\ gen2 = NoManifest
    /\ gphase = "new"
    /\ touched = "none"
    /\ decision = NoValue

\* the task tree before anything was constructed or run
BuildIdle ==
    /\ phase = "new"
    /\ multiarch = <<>>
    /\ multi = FALSE
    /\ subtasks = <<>>
    /\ cur = 0
    /\ pc = "idle"
    /\ reason = [a \in Archs |-> None]
    /\ built = [a \in Archs |-> FALSE]
    /\ tmp = [a \in Archs |-> Absent]
    /\ clock = MaxInitTs
    /\ aggBuilt = FALSE
    /\ aggNewest = -1
    /\ aborted = FALSE
    /\ abortMsg = NoMsg
    /\ log = <<>>
    /\ nb = [a \in Archs |-> NoTrace]
    /\ pre = [a \in Archs |-> NoPre]
    /\ registry = <<>>
    /\ archivable = NoQuery
    /\ queries = [a \in Archs |-> 0]

Init ==
    /\ declared \in DeclaredChoices
    /\ optMultiarch \in BOOLEAN
    /\ native \in BOOLEAN
    /\ genContent \in Contents
    /\ GenIdle
    /\ phase = "new"
    /\ multiarch = <<>>
    /\ multi = FALSE
    /\ subtasks = <<>>
    /\ cur = 0
    /\ pc = "idle"
    /\ reason = [a \in Archs |-> None]
    /\ built = [a \in Archs |-> FALSE]
    /\ manifest \in {m \in [Archs -> Contents \cup {Absent}] :
                        \A a \in Archs : ~is_available(a) => m[a] = Absent}
    /\ tmp = [a \in Archs |-> Absent]
    /\ out_ts \in [Archs -> 0..MaxInitTs]
    /\ clock = MaxInitTs
    /\ aggBuilt = FALSE
    /\ aggNewest = -1
    /\ aborted = FALSE
    /\ abortMsg = NoMsg
    /\ log = <<>>
    /\ nb = [a \in Archs |-> NoTrace]
    /\ pre = [a \in Archs |-> NoPre]
    /\ registry = <<>>
    /\ snap \in BuildSnapshots
    /\ archivable = NoQuery
    /\ queries = [a \in Archs |-> 0]

Abort(msg) == aborted' = TRUE /\ abortMsg' = msg

Cur == subtasks[cur]
Running == phase = "running" /\ ~aborted

----------------------------------------------------------------------------
(* Construction and task composition *)

\* MultiarchProject.__init__
Construct ==
    /\ phase = "new" /\ ~aborted
    /\ IF declared.present
       THEN \E m \in MultiarchOf(declared.list) :
              /\ multiarch' = m
              /\ IF MissingHost(m)
                 THEN Abort(Msg("missing_host")) /\ UNCHANGED phase
                 ELSE phase' = "constructed" /\ UNCHANGED <<aborted, abortMsg>>
       ELSE /\ multiarch' = <<>>
            /\ phase' = "constructed"
            /\ UNCHANGED <<aborted, abortMsg>>
    /\ UNCHANGED <<cfgVars, multi, subtasks, fileVars, taskVars, aggVars, histVars,
                   cur, pc, log, registry>>

\* MultiarchProject.getBuildTask
GetBuildTask ==
    /\ phase = "constructed" /\ ~aborted
    /\ multi' = _use_multiarch(multiarch, optMultiarch)
    /\ subtasks' = BuildTaskArchs(multiarch, optMultiarch)
    /\ phase' = "running"
    /\ cur' = 1
    /\ pc' = "start"
    /\ UNCHANGED <<cfgVars, multiarch, fileVars, taskVars, aggVars, histVars,
                   aborted, abortMsg, log, registry>>

----------------------------------------------------------------------------
(* BuildTask.execute of the current subtask *)

\* TargetArchBuildTask.buildForbidden, called first by execute()
BuildForbidden ==
    /\ Running /\ pc = "start"
    /\ IF ~native
       THEN /\ pc' = "done"
            /\ UNCHANGED <<registry, aborted, abortMsg>>
       ELSE /\ registry' = for_(registry, Cur)
            /\ IF ~is_available(Cur)
               THEN Abort(Msg("missing_toolchain")) /\ UNCHANGED pc
               ELSE pc' = "decide" /\ UNCHANGED <<aborted, abortMsg>>
    /\ UNCHANGED <<cfgVars, projVars, fileVars, taskVars, aggVars, histVars,
                   phase, cur, log>>

\* execute(): a forced build or an updated dependency goes to build() without
\* asking needsBuild
ForcedBuild ==
    /\ Running /\ pc = "decide"
    /\ pc' = "build"
    /\ UNCHANGED <<cfgVars, projVars, fileVars, taskVars, aggVars, histVars,
                   phase, cur, aborted, abortMsg, log, registry>>

\* execute() with args.clean: NinjaBuildTask.clean(forBuild=False) removes the
\* output directory, then build() runs
CleanBeforeBuild ==
    /\ Running /\ pc = "decide"
    /\ manifest' = [manifest EXCEPT ![Cur] = Absent]
    /\ tmp' = [tmp EXCEPT ![Cur] = Absent]
    /\ out_ts' = [out_ts EXCEPT ![Cur] = 0]
    /\ pc' = "build"
    /\ UNCHANGED <<cfgVars, projVars, clock, taskVars, aggVars, histVars,
                   phase, cur, aborted, abortMsg, log, registry>>

\* NinjaBuildTask.needsBuild, called by execute()
NeedsBuild ==
    /\ Running /\ pc = "decide"
    /\ \E generic \in GenericResults, rc \in ExitCodes, ov \in BOOLEAN, ev \in BOOLEAN,
          outLines \in OutLineChoices, detailLines \in DetailLineChoices :
        LET mexists == manifest[Cur] # Absent
            dry == needs_build(rc, Verbose(ov, ev), outLines, detailLines)
            r == needsBuild(generic, mexists, dry)
            ranDry == Contains("dry_run", r.consulted)
        IN
        /\ reason' = [reason EXCEPT ![Cur] = r.reason]
        /\ nb' = [nb EXCEPT ![Cur] =
                    [called |-> TRUE, generic |-> generic, mexists |-> mexists,
                     dry |-> IF ranDry THEN dry ELSE NoTrace.dry, consulted |-> r.consulted,
                     kind |-> r.outcome.kind, value |-> r.outcome.value]]
        /\ log' = IF ranDry THEN Append(log, Event(Cur, "dry_run", rc, Verbose(ov, ev), "")) ELSE log
        /\ IF ranDry /\ rc = 0 /\ detailLines # <<>> /\ ExecutorBuilds(needs_build_args)
           THEN clock' = clock + 1 /\ out_ts' = [out_ts EXCEPT ![Cur] = clock + 1]
           ELSE UNCHANGED <<clock, out_ts>>
        /\ IF r.outcome.kind = "return"
           THEN /\ pc' = IF r.outcome.value[1] THEN "build" ELSE "done"
                /\ UNCHANGED <<aborted, abortMsg>>
           ELSE /\ Abort(r.outcome.msg)
                /\ UNCHANGED pc
    /\ UNCHANGED <<cfgVars, projVars, manifest, tmp, built, aggVars, pre,
                   phase, cur, registry>>

\* needsBuild queried again after it returned NotNeeded, with no input changed:
\* the generic check answers as before and the executor, whose inputs and
\* outputs are as it left them, again reports that there is no work.
Requery ==
    /\ Running /\ pc = "done"
    /\ nb[Cur].called /\ nb[Cur].kind = "return" /\ ~nb[Cur].value[1]
    /\ queries[Cur] < MaxQueries
    /\ \E ov \in BOOLEAN, ev \in BOOLEAN :
        LET mexists == manifest[Cur] # Absent
            dry == needs_build(0, Verbose(ov, ev), <<NoWorkLine>>, <<>>)
            r == needsBuild(nb[Cur].generic, mexists, dry)
            ranDry == Contains("dry_run", r.consulted)
        IN
        /\ reason' = [reason EXCEPT ![Cur] = r.reason]
        /\ nb' = [nb EXCEPT ![Cur] =
                    [called |-> TRUE, generic |-> nb[Cur].generic, mexists |-> mexists,
                     dry |-> IF ranDry THEN dry ELSE NoTrace.dry, consulted |-> r.consulted,
                     kind |-> r.outcome.kind, value |-> r.outcome.value]]
        /\ log' = IF ranDry THEN Append(log, Event(Cur, "dry_run", 0, Verbose(ov, ev), "")) ELSE log
        /\ queries' = [queries EXCEPT ![Cur] = @ + 1]
    /\ UNCHANGED <<declared, optMultiarch, native, genContent, snap, archivable, genVars,
                   projVars, fileVars, built, aggVars, pre,
                   phase, cur, pc, aborted, abortMsg, registry>>

----------------------------------------------------------------------------
(* NinjaBuildTask.build, step by step *)

WriteFile(a, path, content) ==
    IF path = "manifest"
    THEN manifest' = [manifest EXCEPT ![a] = content] /\ UNCHANGED tmp
    ELSE tmp' = [tmp EXCEPT ![a] = content] /\ UNCHANGED manifest

\* mx.SafeFileCreation.__exit__ when an exception passes through: the temporary
\* file is removed, the file at the path is not touched
DiscardTmp(a) == tmp' = [tmp EXCEPT ![a] = Absent]

\* one invocation of the executor through Ninja._run
Invocations(op) ==
    {[rc |-> rc, verbose |-> Verbose(ov, ev), out |-> IF rc = 0 THEN "" ELSE out] :
        rc \in ExitCodes, ov \in BOOLEAN, ev \in BOOLEAN, out \in FailOutputs}

\* the regeneration condition and, when it holds, SafeFileCreation.__enter__
BuildEnter ==
    /\ Running /\ pc = "build"
    /\ LET regen == RegenNeeded(manifest[Cur] # Absent, reason[Cur]) IN
        /\ pre' = [pre EXCEPT ![Cur] = [entered |-> TRUE, manifest |-> manifest[Cur],
                                        reason |-> reason[Cur], regen |-> regen]]
        /\ IF regen
           THEN tmp' = [tmp EXCEPT ![Cur] = Empty] /\ pc' = "generate"
           ELSE UNCHANGED tmp /\ pc' = "compdb"
    /\ UNCHANGED <<cfgVars, projVars, manifest, out_ts, clock, taskVars, aggVars, nb,
                   phase, cur, aborted, abortMsg, log, registry>>

\* DefaultNativeProject.generate_manifest: the unsupported-source check, then
\* NinjaManifestGenerator opens the file and starts to write
GenerateBegin ==
    /\ Running /\ pc = "generate"
    /\ IF generate_manifest(snap, TaskOutDir(Cur), GenTarget).kind = "abort"
       THEN /\ Abort(generate_manifest(snap, TaskOutDir(Cur), GenTarget).msg)
            /\ DiscardTmp(Cur)
            /\ UNCHANGED <<manifest, pc, log>>
       ELSE /\ WriteFile(Cur, GenTarget, Partial)
            /\ log' = Append(log, Event(Cur, "generate", 0, FALSE, GenTarget))
            /\ pc' = "generating"
            /\ UNCHANGED <<aborted, abortMsg>>
    /\ UNCHANGED <<cfgVars, projVars, out_ts, clock, taskVars, aggVars, histVars,
                   phase, cur, registry>>

\* generate_manifest writes the rest of the manifest and closes it
GenerateFinish ==
    /\ Running /\ pc = "generating"
    /\ WriteFile(Cur, GenTarget, genContent)
    /\ pc' = "compare"
    /\ UNCHANGED <<cfgVars, projVars, out_ts, clock, taskVars, aggVars, histVars,
                   phase, cur, aborted, abortMsg, log, registry>>

\* generate_manifest fails part-way (I/O or toolchain resolution)
GenerateFail ==
    /\ Running /\ pc = "generating"
    /\ Abort(Msg("exception"))
    /\ DiscardTmp(Cur)
    /\ UNCHANGED <<cfgVars, projVars, manifest, out_ts, clock, taskVars, aggVars,
                   histVars, phase, cur, pc, log, registry>>

\* the content comparison and, when it differs, ninja.clean()
CompareAndClean ==
    /\ Running /\ pc = "compare"
    /\ IF CleanNeeded(manifest[Cur], tmp[Cur])
       THEN \E i \in Invocations("clean") :
              LET r == _run(i.rc, i.verbose, i.out, "STDOUT") IN
              /\ log' = Append(log, Event(Cur, "clean", i.rc, i.verbose, i.out))
              /\ IF r.abort
                 THEN /\ Abort(r.msg)
                      /\ DiscardTmp(Cur)
                      /\ UNCHANGED <<pc, out_ts>>
                 ELSE /\ out_ts' = [out_ts EXCEPT ![Cur] = 0]
                      /\ pc' = "replace"
                      /\ UNCHANGED <<tmp, aborted, abortMsg>>
       ELSE /\ pc' = "replace"
            /\ UNCHANGED <<tmp, out_ts, aborted, abortMsg, log>>
    /\ UNCHANGED <<cfgVars, projVars, manifest, clock, taskVars, aggVars, histVars,
                   phase, cur, registry>>

\* SafeFileCreation.__exit__ on Windows first removes the file at the path
RemoveOldManifest ==
    /\ Running /\ pc = "replace"
    /\ manifest[Cur] # Absent /\ tmp[Cur] # Absent
    /\ manifest' = [manifest EXCEPT ![Cur] = Absent]
    /\ pc' = "rename"
    /\ UNCHANGED <<cfgVars, projVars, tmp, out_ts, clock, taskVars, aggVars, histVars,
                   phase, cur, aborted, abortMsg, log, registry>>

\* SafeFileCreation.__exit__: os.rename(tmpPath, path) if the temporary file exists
ReplaceManifest ==
    /\ Running /\ pc \in {"replace", "rename"}
    /\ IF tmp[Cur] # Absent
       THEN /\ manifest' = [manifest EXCEPT ![Cur] = tmp[Cur]]
            /\ tmp' = [tmp EXCEPT ![Cur] = Absent]
            /\ log' = Append(log, Event(Cur, "replace", 0, FALSE, tmp[Cur]))
       ELSE UNCHANGED <<manifest, tmp, log>>
    /\ pc' = "compdb"
    /\ UNCHANGED <<cfgVars, projVars, out_ts, clock, taskVars, aggVars, histVars,
                   phase, cur, aborted, abortMsg, registry>>

\* with mx_compdb.CompdbCapture(...) as out: if out: self.ninja.compdb(out=out)
Compdb ==
    /\ Running /\ pc = "compdb"
    /\ \E requested \in BOOLEAN :
        IF requested
        THEN \E i \in Invocations("compdb") :
               LET r == _run(i.rc, i.verbose, i.out, "STDOUT") IN
               /\ log' = Append(log, Event(Cur, "compdb", i.rc, i.verbose, i.out))
               /\ IF r.abort
                  THEN Abort(r.msg) /\ UNCHANGED pc
                  ELSE pc' = "ninja" /\ UNCHANGED <<aborted, abortMsg>>
        ELSE pc' = "ninja" /\ UNCHANGED <<aborted, abortMsg, log>>
    /\ UNCHANGED <<cfgVars, projVars, fileVars, taskVars, aggVars, histVars,
                   phase, cur, registry>>

\* self.ninja.build()
NinjaBuild ==
    /\ Running /\ pc = "ninja"
    /\ \E i \in Invocations("build") :
        LET r == _run(i.rc, i.verbose, i.out, "STDOUT") IN
        /\ log' = Append(log, Event(Cur, "build", i.rc, i.verbose, i.out))
        /\ IF r.abort
           THEN Abort(r.msg) /\ UNCHANGED <<pc, out_ts, clock>>
           ELSE /\ pc' = "returned"
                /\ IF ExecutorBuilds(build_args)
                   THEN clock' = clock + 1 /\ out_ts' = [out_ts EXCEPT ![Cur] = clock + 1]
                   ELSE UNCHANGED <<clock, out_ts>>
                /\ UNCHANGED <<aborted, abortMsg>>
    /\ UNCHANGED <<cfgVars, projVars, manifest, tmp, taskVars, aggVars, histVars,
                   phase, cur, registry>>

\* execute(): build() returned, the task is marked as built
MarkBuilt ==
    /\ Running /\ pc = "returned"
    /\ built' = [built EXCEPT ![Cur] = TRUE]
    /\ pc' = "done"
    /\ UNCHANGED <<cfgVars, projVars, fileVars, reason, aggVars, histVars,
                   phase, cur, aborted, abortMsg, log, registry>>

----------------------------------------------------------------------------
(* The task sequence *)

\* mx.TaskSequence.execute: the next subtask
NextSubtask ==
    /\ Running /\ pc = "done" /\ cur < Len(subtasks)
    /\ cur' = cur + 1
    /\ pc' = "start"
    /\ UNCHANGED <<cfgVars, projVars, fileVars, taskVars, aggVars, histVars,
                   phase, aborted, abortMsg, log, registry>>

\* the last subtask returned; MultiarchBuildTask.execute sets self.built
Finish ==
    /\ Running /\ pc = "done" /\ cur = Len(subtasks)
    /\ aggBuilt' = IF multi THEN AnyBuilt(built, subtasks) ELSE aggBuilt
    /\ phase' = "finished"
    /\ UNCHANGED <<cfgVars, projVars, fileVars, taskVars, aggNewest, histVars,
                   cur, pc, aborted, abortMsg, log, registry>>

\* MultiarchBuildTask.newestOutput
NewestOutputQuery ==
    /\ phase = "finished" /\ multi /\ ~aborted
    /\ aggNewest' = MultiarchNewestOutput(out_ts, subtasks)
    /\ UNCHANGED <<cfgVars, projVars, fileVars, taskVars, aggBuilt, histVars,
                   phase, cur, pc, aborted, abortMsg, log, registry>>

\* MultiarchProject.getArchivableResults, called after the build
ArchivableQuery ==
    /\ phase = "finished" /\ ~aborted
    /\ \E single \in BOOLEAN, use_relpath \in BOOLEAN :
        archivable' = [called |-> TRUE, single |-> single, use_relpath |-> use_relpath,
                       pairs |-> getArchivableResults(multiarch, optMultiarch,
                                                      use_relpath, single, snap.files)]
    /\ registry' = LookupAll(registry, ArchivableArchs(multiarch, optMultiarch))
    /\ UNCHANGED <<declared, optMultiarch, native, genContent, snap, queries, genVars,
                   projVars, fileVars, taskVars, aggVars, histVars,
                   phase, cur, pc, aborted, abortMsg, log>>

Next ==
    \/ Construct
    \/ GetBuildTask
    \/ BuildForbidden
    \/ ForcedBuild
    \/ CleanBeforeBuild
    \/ NeedsBuild
    \/ Requery
    \/ BuildEnter
    \/ GenerateBegin
    \/ GenerateFinish
    \/ GenerateFail
    \/ CompareAndClean
    \/ RemoveOldManifest
    \/ ReplaceManifest
    \/ Compdb
    \/ NinjaBuild
    \/ MarkBuilt
    \/ NextSubtask
    \/ Finish
    \/ NewestOutputQuery
    \/ ArchivableQuery

Spec == Init /\ [][Next]_vars

----------------------------------------------------------------------------
(* Manifest generation on bounded project snapshots *)

\* include directories and libraries that build dependencies contribute
D1 == <<"/", "opt", "d1">>
D2 == <<"/", "opt", "d2">>
L1 == <<"/", "opt", "libdep.a">>

\* a dependency with neither attribute, one with both, one with include_dirs only
DepPool == {[name |-> "plain"],
            [name |-> "full", include_dirs |-> <<D1, D2>>, libs |-> <<L1>>],
            [name |-> "headers", include_dirs |-> <<D1>>]}

\* os.walk over [include, src]: no file twice, the files of include first
FileLists ==
    {fs \in SeqsUpTo(AllFiles, MaxFiles) :
        /\ \A i, j \in DOMAIN fs : i # j => fs[i] # fs[j]
        /\ \A i, j \in DOMAIN fs : (Dir(fs[i]) = "include" /\ Dir(fs[j]) # "include") => i < j}

Kinds == {"static_lib", "shared_lib", "executable"}

\* asm_requires_cpp matters to a project with an assembly source only
GenSnapshots ==
    {[files |-> fs, deps |-> ds, kind |-> k, asm_requires_cpp |-> c] :
        fs \in FileLists, ds \in SeqsUpTo(DepPool, MaxDeps), k \in Kinds,
        c \in BOOLEAN} \ {sn \in [files : FileLists, deps : SeqsUpTo(DepPool, MaxDeps),
                                   kind : Kinds, asm_requires_cpp : {TRUE}] :
                             FilesOf(sn.files, ".S") = <<>>}

buildVars == <<declared, optMultiarch, native, genContent, archivable, queries,
               projVars, fileVars, taskVars, aggVars, histVars,
               phase, cur, pc, aborted, abortMsg, log, registry>>

InitGen ==
    /\ declared = [present |-> FALSE, list |-> <<>>]
    /\ optMultiarch = FALSE
    /\ native = TRUE
    /\ genContent = "M1"
    /\ manifest = [a \in Archs |-> Absent]
    /\ out_ts = [a \in Archs |-> 0]
    /\ BuildIdle
    /\ GenIdle
    /\ snap \in GenSnapshots

\* the names mkstemp may give the temporary file next to the manifest
TmpNames == {"build.ninja.tmp1", "build.ninja.tmp2"}

\* what a manifest file holds: everything generate_manifest wrote into it
Content(m) == [f \in DOMAIN m \ {"path"} |-> m[f]]

\* generate_manifest runs on the snapshot
Generate ==
    /\ gphase = "new"
    /\ \E filename \in TmpNames :
        /\ gen' = generate_manifest(snap, out_dir \o <<Host>>, filename)
        /\ gphase' = IF gen'.kind = "abort" THEN "failed" ELSE "generated"
    /\ UNCHANGED <<buildVars, snap, gen2, touched, decision>>

\* generate_manifest runs again on the same snapshot (self._source is cached)
Regenerate ==
    /\ gphase = "generated"
    /\ \E filename \in TmpNames : gen2' = generate_manifest(snap, out_dir \o <<Host>>, filename)
    /\ gphase' = "regenerated"
    /\ UNCHANGED <<buildVars, snap, gen, touched, decision>>

NextGen ==
    \/ Generate
    \/ Regenerate

SpecGen == InitGen /\ [][NextGen]_vars

----------------------------------------------------------------------------
(* Staleness after a successful build *)

\* a project without dependencies
StaleSnapshots == {sn \in GenSnapshots : sn.deps = <<>>}

InitStale ==
    /\ declared = [present |-> FALSE, list |-> <<>>]
    /\ optMultiarch = FALSE
    /\ native = TRUE
    /\ genContent = "M1"
    /\ manifest = [a \in Archs |-> Absent]
    /\ out_ts = [a \in Archs |-> 0]
    /\ BuildIdle
    /\ GenIdle
    /\ snap \in StaleSnapshots

\* build(): the manifest is generated and the executor brings every output up
\* to date
BuildAll ==
    /\ gphase = "new"
    /\ generate_manifest(snap, out_dir \o <<Host>>, "build.ninja.tmp1").kind = "manifest"
    /\ gen' = generate_manifest(snap, out_dir \o <<Host>>, "build.ninja.tmp1")
    /\ gphase' = "built"
    /\ UNCHANGED <<buildVars, snap, gen2, touched, decision>>

\* a source file of the project gets a modification time after the build
Touch ==
    /\ gphase = "built"
    /\ \E f \in Range(snap.files) : touched' = f
    /\ gphase' = "touched"
    /\ UNCHANGED <<buildVars, snap, gen, gen2, decision>>

\* The executor finds work when an input of a build statement of the manifest
\* is newer than the outputs. A header is no input of any statement; the
\* executor knows it only if a compilation recorded it as a dependency.
ExecutorInputs(m) ==
    UNION {Range(m.edges[i].ins) : i \in DOMAIN m.edges} \cup Range(m.manifest_deps)

ExecutorFindsWork(m, f, recorded) ==
    \/ _resolve(<<Dir(f), Name(f)>>) \in ExecutorInputs(m)
    \/ Ext(f) = ".h" /\ recorded

\* needsBuild after the touch: the inherited check finds nothing (the output
\* exists and no build is forced), the manifest exists, the executor is asked
Decide ==
    /\ gphase = "touched"
    /\ \E recorded \in BOOLEAN :
        LET work == ExecutorFindsWork(gen, touched, recorded)
            dry == needs_build(0, FALSE, IF work THEN <<>> ELSE <<NoWorkLine>>,
                               IF work THEN <<ExplainObject>> ELSE <<>>)
        IN decision' = needsBuild(<<FALSE, None>>, TRUE, dry).outcome.value
    /\ gphase' = "decided"
    /\ UNCHANGED <<buildVars, snap, gen, gen2, touched>>

NextStale ==
    \/ BuildAll
    \/ Touch
    \/ Decide

SpecStale == InitStale /\ [][NextStale]_vars

----------------------------------------------------------------------------
(* Properties *)

Before(op, a, i) == \E j \in 1..(i - 1) : log[j].op = op /\ log[j].arch = a
ExecutorEvents == {i \in DOMAIN log : log[i].op \in ExecutorOps}
LastEvent == log[Len(log)]

\* C1: needsBuild applies its checks in order and stops at the first that asks
\* for a build: a needed generic check gives (True, its reason) and consults
\* nothing else; otherwise a missing manifest gives (True, 'no build manifest')
\* without a dry run; otherwise the outcome is that of the executor's dry run.
\* NotNeeded is returned only with a manifest and a dry run that found no work.
C1_NeedsBuildOrder ==
    \A a \in Archs : nb[a].called =>
        LET t == nb[a]
            dryRuns == {i \in DOMAIN log : log[i].op = "dry_run" /\ log[i].arch = a}
        IN
        /\ t.generic[1] =>
              /\ t.kind = "return" /\ t.value = <<TRUE, t.generic[2]>>
              /\ t.consulted = <<"generic">>
              /\ dryRuns = {}
        /\ (~t.generic[1] /\ ~t.mexists) =>
              /\ t.kind = "return" /\ t.value = <<TRUE, NoManifestReason>>
              /\ t.consulted = <<"generic", "exists">>
              /\ dryRuns = {}
        /\ (~t.generic[1] /\ t.mexists) =>
              /\ t.consulted = <<"generic", "exists", "dry_run">>
              /\ Cardinality(dryRuns) = 1 + queries[a]
              /\ t.kind = t.dry.kind /\ t.value = t.dry.value
        /\ (t.kind = "return" /\ ~t.value[1]) =>
              /\ t.mexists
              /\ t.dry.kind = "return" /\ t.dry.value = <<FALSE, NoWorkLine>>

C1_Witness ==
    /\ nb[Host].called
    /\ nb[Host].consulted = <<"generic", "exists", "dry_run">>
    /\ nb[Host].kind = "return"
    /\ nb[Host].value = <<FALSE, NoWorkLine>>
    /\ pc = "done"

\* C2 as stated: every executor build that follows a needsBuild decision is
\* preceded by a generation of the manifest to the temporary path.
C2_AlwaysRegenerates ==
    \A i \in DOMAIN log :
        (log[i].op = "build" /\ nb[log[i].arch].called) =>
            \E j \in 1..(i - 1) :
                /\ log[j].op = "generate" /\ log[j].arch = log[i].arch
                /\ log[j].out = "tmp"

\* C2 amended: an executor build that follows a needsBuild decision is preceded
\* by a generation of the manifest to the temporary path exactly when, at the
\* entry of build(), the manifest file is missing or the recorded reason is
\* None, names the manifest file or contains 'phony'.
C2_RegeneratesWhenManifestStale ==
    \A i \in DOMAIN log :
        LET a == log[i].arch IN
        (log[i].op = "build" /\ nb[a].called) =>
            ((\E j \in 1..(i - 1) :
                 log[j].op = "generate" /\ log[j].arch = a /\ log[j].out = "tmp")
             <=> \/ pre[a].manifest = Absent
                 \/ pre[a].reason = None
                 \/ Contains("build.ninja", pre[a].reason)
                 \/ Contains("phony", pre[a].reason))

C2_Witness ==
    /\ log # <<>> /\ LastEvent.op = "build" /\ LastEvent.arch = Host
    /\ nb[Host].called
    /\ pre[Host].reason = ExplainManifest
    /\ Before("generate", Host, Len(log))

\* C3: when the manifest on disk differs from the one that is generated now,
\* the build invokes the executor's clean before its build.
C3_ManifestChangeCleansBeforeBuild ==
    \A i \in DOMAIN log :
        LET a == log[i].arch IN
        (/\ log[i].op = "build"
         /\ pre[a].manifest \in Contents
         /\ pre[a].manifest # genContent) => Before("clean", a, i)

\* C4: a failing compile-database export does not abort the build.
C4_CompdbFailureTolerated ==
    ~(aborted /\ log # <<>> /\ LastEvent.op = "compdb" /\ LastEvent.rc # 0)

\* C5: a multiarch build with an architecture whose toolchain is unavailable
\* invokes no executor process for any of its subtasks.
C5_NoProcessWithMissingToolchain ==
    (multi /\ \E k \in DOMAIN subtasks : ~is_available(subtasks[k])) =>
        ExecutorEvents = {}

C3_Reachable ==
    /\ log # <<>> /\ LastEvent.op = "build" /\ LastEvent.arch = Host
    /\ pre[Host].manifest \in Contents /\ pre[Host].manifest # genContent
    /\ Before("clean", Host, Len(log))

\* C6: a non-zero exit of an executor step aborts the whole task tree: it is the
\* last executor operation of the run, no subtask is started after it and the
\* aggregated task reports neither built nor a newest output.
C6_FailedStepAbortsTree ==
    \A i \in DOMAIN log : log[i].rc # 0 =>
        /\ i = Len(log)
        /\ aborted
        /\ phase = "running"
        /\ subtasks[cur] = log[i].arch
        /\ ~aggBuilt /\ aggNewest = -1

C6_Witness ==
    /\ multi /\ cur < Len(subtasks)
    /\ log # <<>> /\ LastEvent.op = "build" /\ LastEvent.rc # 0
    /\ aborted

C8_TasksPerArchitecture ==
    phase \in {"running", "finished"} =>
        LET distinct == {substitute(declared.list[i]) : i \in DOMAIN declared.list} IN
        IF ~declared.present \/ ~optMultiarch
        THEN ~multi /\ subtasks = <<Host>>
        ELSE /\ multi
             /\ Range(subtasks) = distinct
             /\ Len(subtasks) = Cardinality(distinct)
             /\ Host \in Range(subtasks)

C8_Witness ==
    /\ phase = "running" /\ multi
    /\ declared.list = <<"<arch>", "amd64">>
    /\ subtasks = <<Host>>

\* C9: the file at the manifest path is always absent, the complete previous
\* manifest or the complete new manifest, never a partially written one, and
\* once a regeneration has completed it is the new manifest.
C9_ManifestNeverPartial ==
    \A a \in Archs :
        /\ manifest[a] \in Contents \cup {Absent}
        /\ pre[a].entered => manifest[a] \in {Absent, pre[a].manifest, genContent}
        /\ (/\ pre[a].regen /\ phase = "running" /\ subtasks[cur] = a
            /\ pc \in {"compdb", "ninja", "returned", "done"}) => manifest[a] = genContent

C9_Witness ==
    /\ aborted
    /\ log # <<>> /\ LastEvent.op = "clean" /\ LastEvent.rc # 0
    /\ Before("generate", Host, Len(log))
    /\ manifest[Host] = pre[Host].manifest /\ manifest[Host] \in Contents
    /\ tmp[Host] = Absent

\* C10: a non-zero exit of the executor's build is fatal: build() does not
\* return, the task is not marked built, and the abort carries the captured
\* output, or the exit code when the invocation was verbose.
C10_BuildFailureIsFatal ==
    \A i \in DOMAIN log : (log[i].op = "build" /\ log[i].rc # 0) =>
        /\ i = Len(log)
        /\ aborted
        /\ pc = "ninja"
        /\ ~built[log[i].arch]
        /\ IF log[i].verbose
           THEN abortMsg.kind = "exit_code" /\ abortMsg.rc = log[i].rc
           ELSE abortMsg.kind = "output" /\ abortMsg.out = log[i].out

C10_Witness ==
    /\ aborted
    /\ log # <<>> /\ LastEvent.op = "build" /\ LastEvent.rc # 0
    /\ abortMsg.kind = "output" /\ abortMsg.out = "FAILED: foo.o"

----------------------------------------------------------------------------
\* C11 as stated: getArchivableResults yields pairs only for architectures
\* whose toolchain is available, in single mode and in non-single mode alike.
C11_OnlyAvailableArchitectures ==
    archivable.called =>
        \A i \in DOMAIN archivable.pairs : is_available(archivable.pairs[i].arch)

\* C11 amended: in single mode only the host architecture contributes, and it
\* contributes exactly the deliverable; in non-single mode every architecture
\* of the project, available or not, contributes its deliverable and every
\* public header, and no other architecture contributes.
C11_ArchivableResults ==
    archivable.called =>
        LET ps      == archivable.pairs
            archs   == IF multi THEN Range(multiarch) ELSE {Host}
            headers == {f \in Range(snap.files) : Dir(f) = "include"}
        IN  /\ \A i \in DOMAIN ps : ps[i].arch \in archs
            /\ archivable.single =>
                /\ Len(ps) = 1
                /\ ps[1].arch = Host
                /\ ps[1].src = <<"out", Host, "libfoo.a">>
            /\ ~archivable.single =>
                \A a \in archs :
                    /\ \E i \in DOMAIN ps :
                        ps[i].arch = a /\ ps[i].src = <<"out", a, "libfoo.a">>
                    /\ \A h \in headers : \E i \in DOMAIN ps :
                        ps[i].arch = a /\ ps[i].src = <<"proj", "include", Name(h)>>
                    /\ Cardinality({i \in DOMAIN ps : ps[i].arch = a})
                         = 1 + Cardinality(headers)

C11_Witness ==
    /\ archivable.called /\ ~archivable.single
    /\ \E i \in DOMAIN archivable.pairs : ~is_available(archivable.pairs[i].arch)

C13_AnySourceTouchNeedsBuild ==
    gphase = "decided" => decision[1]

\* C13 amended: touching a C, C++ or assembly source makes the next decision
\* NeedsBuild; touching a swap file leaves it NotNeeded.
C13_CompiledSourceTouchNeedsBuild ==
    gphase = "decided" =>
        /\ Ext(touched) \in {".c", ".cc", ".S"} => decision[1]
        /\ Ext(touched) = ".swp" => decision = <<FALSE, NoWorkLine>>

C13_Witness ==
    /\ gphase = "decided"
    /\ touched = "src/c.S" /\ snap.asm_requires_cpp
    /\ decision = <<TRUE, ExplainObject>>

\* C14 as stated: a project with a source file of any extension that has no
\* compile rule (anything but .c, .cc, .S; headers are not compiled) fails
\* manifest generation, so no generation of its manifest ever starts to write.
C14_NoRuleExtensionRejected ==
    (\E f \in Range(snap.files) : Ext(f) \notin {".h", ".c", ".cc", ".S"}) =>
        \A i \in DOMAIN log : log[i].op # "generate"

\* C14 amended: a project with a source file whose extension is none of .h, .c,
\* .cc, .S, .swp fails manifest generation with the unsupported-source abort:
\* nothing is written, the temporary file is removed and the manifest on disk
\* is as it was when build() was entered. A .swp file does not fail it.
C14_UnsupportedSourceRejected ==
    IF \E f \in Range(snap.files) : Ext(f) \notin {".h", ".c", ".cc", ".S", ".swp"}
    THEN /\ \A i \in DOMAIN log : log[i].op # "generate"
         /\ pc \notin {"generating", "compare", "replace", "rename", "compdb", "ninja"}
              \/ ~pre[Cur].regen
         /\ \A a \in Archs : (pre[a].entered /\ pre[a].regen) =>
              /\ manifest[a] = pre[a].manifest
              /\ pc # "generate" =>
                   /\ aborted /\ abortMsg.kind = "unsupported_sources"
                   /\ tmp[a] = Absent
    ELSE abortMsg.kind # "unsupported_sources"

C14_Witness ==
    /\ aborted /\ abortMsg.kind = "unsupported_sources"
    /\ Contains("src/y.rs", snap.files)
    /\ pre[Host].regen /\ manifest[Host] \in Contents /\ manifest[Host] = pre[Host].manifest
    /\ tmp[Host] = Absent

\* C15 as stated: in every run that ends in the unsupported-source abort, no
\* invocation of the executor (dry run, clean, compile-database export or
\* build) precedes the abort.
C15_UnsupportedDetectedBeforeExecutor ==
    (aborted /\ abortMsg.kind = "unsupported_sources") =>
        \A i \in DOMAIN log : log[i].op \notin ExecutorOps

\* C16: the generated include list is the directories of the project's own
\* headers in discovery order followed by the include_dirs of the dependencies
\* in dependency order, every duplicate dropped and the first occurrence kept
\* in place: own headers at H and dependency dirs [D1, D2, D1] give exactly
\* [H, D1, D2]; a dependency without include_dirs contributes nothing and is
\* no error.
C16_IncludeOrder ==
    gen.kind = "manifest" =>
        LET hs    == SelectSeq(snap.files, LAMBDA f : Ext(f) = ".h")
            hdirs == [i \in DOMAIN hs |-> <<"-I", "$project", Dir(hs[i])>>]
            with  == SelectSeq(snap.deps, LAMBDA d : "include_dirs" \in DOMAIN d)
            ddirs == Flatten([i \in DOMAIN with |->
                        [j \in DOMAIN with[i].include_dirs |->
                            <<"-I">> \o with[i].include_dirs[j]]])
            cand  == hdirs \o ddirs
            first(x) == CHOOSE i \in DOMAIN cand : cand[i] = x /\ \A j \in 1..(i - 1) : cand[j] # x
            incl  == gen.includes
        IN  /\ Range(incl) = Range(cand)
            /\ \A i, j \in DOMAIN incl : i < j => first(incl[i]) < first(incl[j])
            /\ (Range(hdirs) = {<<"-I", "$project", "include">>}
                    /\ ddirs = <<<<"-I">> \o D1, <<"-I">> \o D2, <<"-I">> \o D1>>)
                => incl = <<<<"-I", "$project", "include">>, <<"-I">> \o D1, <<"-I">> \o D2>>

C16_Witness ==
    /\ gphase = "generated"
    /\ snap.files = <<"include/api.h", "src/a.c">>
    /\ snap.deps = <<[name |-> "full", include_dirs |-> <<D1, D2>>, libs |-> <<L1>>],
                     [name |-> "headers", include_dirs |-> <<D1>>]>>
    /\ gen.kind = "manifest"
    /\ gen.includes = <<<<"-I", "$project", "include">>, <<"-I", "/", "opt", "d1">>,
                        <<"-I", "/", "opt", "d2">>>>

\* the statements of a manifest for the deliverable, the objects its compile
\* statements produce and the libraries its dependencies contribute
TerminalEdges(m) == {i \in DOMAIN m.edges : m.edges[i].rule \in {"ar", "link", "linkxx"}}
ProducedObjects == {<<Dir(f), ObjName(f)>> : f \in {g \in Range(snap.files) : Ext(g) \in {".c", ".cc", ".S"}}}
ContributedLibs == UNION {Range(snap.deps[i].libs) : i \in {j \in DOMAIN snap.deps : "libs" \in DOMAIN snap.deps[j]}}
HasCxx == \E f \in Range(snap.files) : Ext(f) = ".cc"

\* C17 as stated: every manifest has exactly one terminal rule (ar for a static
\* library, otherwise linkxx iff there is a C++ source, else link) whose inputs
\* are all object files together with the dependencies' libraries.
C17_TerminalRuleWithDepLibs ==
    gen.kind = "manifest" =>
        /\ Cardinality(TerminalEdges(gen)) = 1
        /\ \A i \in TerminalEdges(gen) :
            /\ gen.edges[i].rule = (IF snap.kind = "static_lib" THEN "ar"
                                    ELSE IF HasCxx THEN "linkxx" ELSE "link")
            /\ Range(gen.edges[i].ins) = ProducedObjects \cup ContributedLibs

\* C17 amended: as stated, except that the archive rule of a static library
\* takes the object files only; the dependencies' libraries are inputs of the
\* link rules alone.
C17_TerminalRule ==
    gen.kind = "manifest" =>
        /\ Cardinality(TerminalEdges(gen)) = 1
        /\ \A i \in TerminalEdges(gen) :
            /\ gen.edges[i].out = <<"libfoo.a">>
            /\ gen.edges[i].rule = (IF snap.kind = "static_lib" THEN "ar"
                                    ELSE IF HasCxx THEN "linkxx" ELSE "link")
            /\ Range(gen.edges[i].ins) =
                 ProducedObjects \cup (IF snap.kind = "static_lib" THEN {} ELSE ContributedLibs)
            /\ Len(gen.edges[i].ins) =
                 Cardinality(ProducedObjects)
                 + (IF snap.kind = "static_lib" THEN 0
                    ELSE Len(Flatten([j \in DOMAIN snap.deps |-> libs_of(snap.deps[j])])))
        /\ \A o \in ProducedObjects :
             Cardinality({i \in DOMAIN gen.edges : gen.edges[i].out = o}) = 1

C17_Witness ==
    /\ gphase = "generated"
    /\ snap.kind = "static_lib"
    /\ snap.files = <<"src/a.c", "src/b.cc">>
    /\ ContributedLibs = {L1}
    /\ Last(gen.edges) = [out |-> <<"libfoo.a">>, rule |-> "ar",
                          ins |-> <<<<"src", "a.o">>, <<"src", "b.o">>>>]

C19_RegistryIdempotent ==
    [][ /\ \A a \in DOMAIN registry : a \in DOMAIN registry' /\ registry'[a] = registry[a]
        /\ \A a \in DOMAIN registry' :
            /\ registry'[a].target_arch = a
            /\ is_available(registry'[a].target_arch) <=> (a = "amd64")
        /\ \A a, b \in DOMAIN registry' : a # b => registry'[a].id # registry'[b].id
        /\ (archivable' # archivable) =>
             \A i \in DOMAIN multiarch : multi => multiarch[i] \in DOMAIN registry' ]_vars

C19_Witness ==
    /\ archivable.called
    /\ DOMAIN registry = {"amd64", "aarch64"}
    /\ registry["aarch64"].id = 0 /\ registry["amd64"].id = 1

\* C20: every successfully constructed project has a multiarch list that is
\* empty or contains the host architecture: a declared list that (after
\* substitution) lacks the host aborts the construction, and a project without
\* the attribute gets the empty list.
C20_MultiarchHasHost ==
    LET namesHost == \E i \in DOMAIN declared.list : declared.list[i] \in {"amd64", "<arch>"}
    IN  /\ phase # "new" =>
            /\ multiarch = <<>> \/ (\E i \in DOMAIN multiarch : multiarch[i] = "amd64")
            /\ ~declared.present => multiarch = <<>>
            /\ declared.present => namesHost
        /\ (declared.present /\ ~namesHost) =>
            /\ phase = "new"
            /\ aborted => abortMsg.kind = "missing_host"
            /\ multiarch # <<>> => aborted

C20_Witness ==
    /\ phase = "constructed"
    /\ declared.present /\ declared.list = <<"<arch>", "aarch64">>
    /\ Len(multiarch) = 2 /\ multiarch[2] = "amd64"

\* C21: within build() the executor's clean is invoked if and only if the
\* manifest was regenerated, a manifest existed when build() was entered and
\* its content differs from the newly generated one; otherwise build() goes on
\* to the replacement without a clean and the outputs are kept. No other step
\* of build() invokes the clean.
C21_ContentDiffGatesClean ==
    [][ LET cleaned == Len(log') = Len(log) + 1 /\ log'[Len(log')].op = "clean"
        IN  /\ cleaned => pc = "compare"
            /\ (pc = "compare" /\ (pc' # pc \/ aborted')) =>
                 /\ cleaned <=> /\ pre[Cur].regen
                                /\ pre[Cur].manifest # Absent
                                /\ pre[Cur].manifest # genContent
                 /\ ~cleaned => (out_ts' = out_ts /\ pc' = "replace" /\ ~aborted') ]_vars

C21_Witness ==
    /\ pc = "replace" /\ ~aborted
    /\ log # <<>> /\ LastEvent.op = "clean" /\ LastEvent.rc = 0 /\ LastEvent.arch = Host
    /\ pre[Host].manifest = "M2" /\ genContent = "M1" /\ tmp[Host] = "M1"
    /\ out_ts[Host] = 0

C23_RegenerationFrame ==
    [][ /\ (pc = "build" /\ pc' # "build") =>
             IF \/ manifest[Cur] = Absent
                \/ reason[Cur] = <<"<None>">>
                \/ \E i \in DOMAIN reason[Cur] : reason[Cur][i] \in {"build.ninja", "phony"}
             THEN pc' = "generate" /\ tmp'[Cur] = Empty
             ELSE pc' = "compdb" /\ UNCHANGED <<manifest, tmp, out_ts, log>>
        /\ \A a \in Archs : (pre'[a].entered /\ ~pre'[a].regen) =>
             /\ manifest'[a] = pre'[a].manifest /\ manifest'[a] # Absent
             /\ tmp'[a] = Absent
             /\ \A i \in DOMAIN log' : log'[i].arch = a =>
                    log'[i].op \in {"dry_run", "compdb", "build"} ]_vars

C23_Witness ==
    /\ pre[Host].entered /\ ~pre[Host].regen
    /\ pre[Host].reason = ExplainObject
    /\ log # <<>> /\ LastEvent.op = "build" /\ LastEvent.rc = 0
    /\ Before("compdb", Host, Len(log))
    /\ manifest[Host] = "M2" /\ genContent = "M1"

\* the position of an executor or file step within one build()
StepRank(op) == CASE op = "generate" -> 1 [] op = "clean" -> 2 [] op = "replace" -> 3
                  [] op = "compdb" -> 4 [] op = "build" -> 5 [] OTHER -> 0

\* C24: within one build() the manifest is generated to the temporary path,
\* then the clean (if any) runs while the previous manifest is still at the
\* manifest path, then the temporary manifest replaces it, then the
\* compile-database export (if requested) runs, and the executor's build runs
\* last and at most once, with the generated manifest in place.
C24_BuildStepOrder ==
    [][ LET l == log'
            grew == Len(l) = Len(log) + 1
        IN  /\ \A i, j \in DOMAIN l : (i < j /\ l[i].arch = l[j].arch) =>
                 \/ StepRank(l[i].op) < StepRank(l[j].op)
                 \/ (l[i].op = "dry_run" /\ l[j].op = "dry_run")
            /\ \A i \in DOMAIN l :
                 /\ l[i].op = "generate" => l[i].out = "tmp"
                 /\ l[i].op \in {"clean", "replace"} =>
                      \E j \in 1..(i - 1) : l[j].op = "generate" /\ l[j].arch = l[i].arch
                 /\ (l[i].op \in {"compdb", "build"}
                       /\ \E j \in 1..(i - 1) : l[j].op = "generate" /\ l[j].arch = l[i].arch)
                      => \E j \in 1..(i - 1) : l[j].op = "replace" /\ l[j].arch = l[i].arch
            /\ (grew /\ l[Len(l)].op = "clean") =>
                 /\ manifest[Cur] = pre[Cur].manifest /\ manifest[Cur] # Absent
                 /\ tmp[Cur] = genContent
                 /\ manifest' = manifest
            /\ (grew /\ l[Len(l)].op = "build" /\ pre[Cur].regen) =>
                 manifest[Cur] = genContent /\ tmp[Cur] = Absent ]_vars

C24_Witness ==
    /\ Len(log) = 6
    /\ [i \in 1..6 |-> log[i].op] = <<"dry_run", "generate", "clean", "replace", "compdb", "build">>
    /\ \A i \in 1..6 : log[i].arch = Host /\ log[i].rc = 0
    /\ manifest[Host] = genContent /\ pre[Host].manifest # genContent

\* C25 as stated: no dry run that exits with code 0 makes Ninja.needs_build
\* raise instead of returning its answer.
C25_NeedsBuildNeverRaises ==
    \A a \in Archs : nb[a].dry.kind # "raise"

====
